---------------------------- MODULE Spec2Model ----------------------------
(***************************************************************************)
(* AlertMatrix frame pipeline and alert dispatch.                          *)
(*                                                                         *)
(* Three programs of the repository are modelled; exactly one of them runs *)
(* in a behaviour (variable program, fixed by Init):                       *)
(*   "enhanced"  Yolo5/enhanced_detection_service.py                       *)
(*               (EnhancedDetectionService: producer loop, per-class       *)
(*               cooldown, alert dispatch, MJPEG stream generator)         *)
(*   "gun"       Yolo5/gun_detection_service.py                            *)
(*               (GunDetectionService: producer loop, one cooldown clock)  *)
(*   "stream"    Yolo5/working_video_stream.py                             *)
(*               (VideoStreamer capture loop, MJPEG stream generator)      *)
(*                                                                         *)
(* Confidences are integer percentages (0.7 is 70).  A frame is the        *)
(* sequence of annotations drawn on it; a published frame is identified by *)
(* its capture number.  time.time() is the variable clock: every read      *)
(* returns a value of Times that is not smaller than the previous read.    *)
(***************************************************************************)
EXTENDS Integers, Sequences, FiniteSets, TLC

\* ------------------------------------------------------------------ bounds
\* Frames a camera delivers before every further read fails.
MaxFrames == 2
\* Concurrent streaming clients.
MaxClients == 2

\* ------------------------------------------------------ program constants
confidence_threshold == 50
alert_threshold == 70
cooldown_seconds == 10
gds_confidence_threshold == 50
gds_cooldown_seconds == 10

\* ------------------------------------------------------------ input domains
\* Values time.time() may return.
Times == {0, 5, 10, 11, 20, 21}
\* model.names of the detector (with a plural weapon name, which
\* process_detections looks for), plus a class that is no weapon.
Classes == {"gun", "knife", "knives", "person"}
Confs == {40, 50, 60, 70, 80, 90, 95}
\* A row of the detector's table: the name model.names gives its class index
\* (InvalidClass when the index has no name), its confidence, its field count.
InvalidClass == "invalid_class_id"
RawRow(c, p, n) == [cls |-> c, conf |-> p, fields |-> n]
Row(c, p) == RawRow(c, p, 6)
Rows == {Row(c, p) : c \in Classes, p \in Confs}
PairRows == {Row("gun", 90), Row("knife", 90), Row("gun", 40), Row("gun", 50)}
\* Detector results of a frame with detections: a table of rows.
Scenes == {<<>>} \cup {<<r>> : r \in Rows}
              \cup {<<r1, r2>> : r1 \in PairRows, r2 \in PairRows}
\* Detector results with malformed rows: tables of 5 or 7 columns, rows whose
\* class index is outside model.names.
MalformedScenes ==
    {<<RawRow("gun", 90, 5)>>, <<RawRow("gun", 90, 7)>>,
     <<Row(InvalidClass, 90), Row("gun", 50)>>,
     <<Row("knife", 60), Row(InvalidClass, 40)>>}
AllScenes == Scenes \cup MalformedScenes
\* Detector results of a frame without detections.
EmptyScenes == {<<>>}
\* Shape of the raw result that carries a table: a list of result objects
\* yields 6 columns by construction, other widths come from an xyxy table.
ShapeOf(s) ==
    IF s # <<>> /\ s[1].fields # 6 THEN "xyxy_table" ELSE "results_list"
\* Raw results of the other shapes, with the rows they hold.
OtherResults ==
    {[shape |-> "empty_list", rows |-> <<>>],
     [shape |-> "unknown", rows |-> <<Row("gun", 90)>>],
     [shape |-> "results_object", rows |-> <<Row("gun", 90)>>],
     [shape |-> "xyxy_table", rows |-> <<Row("person", 40), Row("knife", 60)>>]}
\* Backend answers to POST /api/alert.
Statuses == {200, 201, 404, 500}
NoResponse == [kind |-> "none", status |-> 0]
Http(s) == [kind |-> "http", status |-> s]
Outcomes == {Http(s) : s \in Statuses}
              \cup {[kind |-> k, status |-> 0] :
                      k \in {"timeout", "connection_error", "exception"}}
AlertTypes == {"gun", "knife"}
\* Values of --confidence (in hundredths) and --cooldown given to main().
ArgConfidences == {30, 50, 70, 90}
ArgCooldowns == {0, 10}
NoConfig == [confidence_threshold |-> 0, alert_threshold |-> 0,
             cooldown_seconds |-> 0]
Never == 0 - 1
Clients == 1..MaxClients

VARIABLES
    program,            \* which script runs
    clock,              \* last value returned by time.time()
    \* EnhancedDetectionService fields
    last_gun_alert, last_knife_alert, detection_count, current_frame, frame_lock,
    \* GunDetectionService fields
    last_alert_time, gds_detection_count,
    \* locals of the producer loop (run_detection / run, process_detections)
    pc, frame_count, frame, pred, i, detections,
    \* locals of send_alert
    detection_type, confidence, current_time, response, sa_result,
    \* history: alert state at entry of send_alert, decision time of the last
    \* alert per type that send_alert reported sent / that the backend accepted
    \* (2xx), progress along the cooldown scenario
    sa_pre, last_sent, last_accepted, scen,
    \* working_video_stream globals and VideoStreamer fields
    ws_current_frame, camera_active, ws_frame_count, camera_lock,
    running, cap, camera_index, ws_pc,
    \* stream generators (generate_frames), one per client
    gen_pc, gen_saw, gen_out,
    \* the /snapshot request handler of working_video_stream
    snap_pc,
    \* history of the alerting loops: whether the last returned send_alert call
    \* of a type failed at its dispatch, dispatch timeouts of the current
    \* cycle, consecutive failed reads
    last_failed, cycle_timeouts, read_failures,
    \* history of the streaming services: whether a read failed since the last
    \* open attempt or delivered frame, indexes tried by the initialize_camera
    \* call that has just returned (empty once the loop has moved on)
    ws_read_failed, tried,
    \* shape of the raw detector result handed to process_detections
    results_shape,
    \* main() and EnhancedDetectionService.__init__: position, thresholds and
    \* cooldown stored by the constructor, answer to the registration call
    st_pc, cfg, st_response,
    \* main() of working_video_stream: serving, or back from stop_capture
    main_pc

enhFields == <<last_gun_alert, last_knife_alert, detection_count>>
enhStream == <<current_frame, frame_lock>>
gdsFields == <<last_alert_time, gds_detection_count>>
loopVars == <<pc, frame_count, frame, pred, i, detections>>
saVars == <<detection_type, confidence, current_time, response, sa_result>>
histVars == <<sa_pre, last_sent, last_accepted, scen>>
wsVars == <<ws_current_frame, camera_active, ws_frame_count, camera_lock,
            running, cap, camera_index, ws_pc>>
genVars == <<gen_pc, gen_saw, gen_out>>
snapVars == <<snap_pc>>
obsVars == <<last_failed, cycle_timeouts, read_failures>>
strObs == <<ws_read_failed, tried>>
startVars == <<st_pc, cfg, st_response>>
vars == <<program, clock, enhFields, enhStream, gdsFields, loopVars, saVars,
          histVars, wsVars, genVars, snapVars, obsVars, strObs, startVars,
          results_shape, main_pc>>

\* ------------------------------------------------------------- pure helpers
\* `sub in class_name.lower()` for the class names of Classes.
Contains(sub, name) ==
    \/ sub = "gun" /\ name \in {"gun", "guns", "handgun"}
    \/ sub = "guns" /\ name \in {"guns"}
    \/ sub = "knife" /\ name \in {"knife"}
    \/ sub = "knives" /\ name \in {"knives"}

is_weapon(name) == \E w \in {"gun", "knife", "guns", "knives"} : Contains(w, name)

weapon_typeAlwaysGun(name) == "gun"
weapon_type(name) ==
    IF \E g \in {"gun", "guns"} : Contains(g, name) THEN "gun" ELSE "knife"

PassesDisplayStrict(conf) == conf > confidence_threshold
PassesDisplay(conf) == conf >= confidence_threshold

PassesAlert(conf) == conf >= alert_threshold

CooldownActive(now, last) == now - last < cooldown_seconds

Accepted(resp) == resp.kind = "http" /\ resp.status = 200

\* The cooldown clock send_alert reads and writes for a detection type.
LastAlertOf(type) == IF type = "gun" THEN last_gun_alert ELSE last_knife_alert

ClockAfterResponseEager(resp, now, last) == now
ClockAfterResponseAtCompletion(resp, now, last) ==
    IF Accepted(resp) THEN clock' ELSE last
ClockAfterResponse(resp, now, last) == IF Accepted(resp) THEN now ELSE last

GdsPasses(conf) == conf >= gds_confidence_threshold

GdsCooldownActive(now, last) == now - last < gds_cooldown_seconds

GdsAccepted(resp) == resp.kind = "http" /\ resp.status = 200

\* process_detections, shape validation: a table with fewer than 6 columns is
\* replaced by the empty table.
ShapeValidated(rows) ==
    IF rows # <<>> /\ rows[1].fields < 6 THEN <<>> ELSE rows

\* process_detections, extraction of the table from the raw result: a
\* non-empty list whose first element has boxes, a single result with boxes,
\* or a result with an xyxy table; anything else leaves the empty table.
KnownShapes == {"results_list", "results_object", "xyxy_table"}
ExtractedAny(shape, rows) == ShapeValidated(rows)
Extracted(shape, rows) ==
    IF shape \in KnownShapes THEN ShapeValidated(rows) ELSE <<>>

\* `x1, y1, x2, y2, conf, cls = detection` raises for a row of more than 6
\* fields (rows of fewer than 6 are skipped before).
UnpackRaises(r) == r.fields > 6

\* model.names[class_id] finds a name.
HasName(r) == r.cls \in Classes

\* GunDetectionService.process_detections raises on a row at or above the
\* threshold whose class index has no name (model.names[int(cls)]) or that is
\* a weapon without exactly four box fields (x1, y1, x2, y2 = map(int, box)).
GdsRowRaises(r) ==
    /\ GdsPasses(r.conf)
    /\ \/ r.cls \notin Classes
       \/ r.cls \in {"gun", "knife"} /\ r.fields # 6
GdsRaises(rows) == \E k \in 1..Len(rows) : GdsRowRaises(rows[k])

\* GunDetectionService.process_detections: the weapon rows at or above the
\* threshold, in order.
RECURSIVE GdsFilter(_)
GdsFilter(rows) ==
    IF rows = <<>> THEN <<>>
    ELSE LET r == Head(rows)
             rest == GdsFilter(Tail(rows))
         IN IF GdsPasses(r.conf) /\ r.cls \in {"gun", "knife"}
            THEN <<r>> \o rest ELSE rest

Box(r) == [what |-> "box", cls |-> r.cls, conf |-> r.conf]
Warning(r) == [what |-> "warning", cls |-> weapon_type(r.cls), conf |-> r.conf]
Summary(n) == [what |-> "summary", cls |-> "", conf |-> n]

RECURSIVE Boxes(_)
Boxes(rows) == IF rows = <<>> THEN <<>> ELSE <<Box(Head(rows))>> \o Boxes(Tail(rows))

\* The alert state a send_alert call may change.
AlertState ==
    IF program = "enhanced"
    THEN <<last_gun_alert, last_knife_alert, detection_count>>
    ELSE <<last_alert_time, gds_detection_count>>

\* Progress along the scenario of gun detections (t=0, 0.9), (t=5, 0.95),
\* (t=11, 0.8) with a backend that answers 200: the outcomes of the calls made
\* so far while they follow it, <<"off">> once a gun call leaves it.
Scenario == <<[t |-> 0, conf |-> 90], [t |-> 5, conf |-> 95], [t |-> 11, conf |-> 80]>>

ScenAfter(type, conf, now, resp, result) ==
    IF type # "gun" \/ scen = <<"off">> THEN scen
    ELSE IF /\ Len(scen) < Len(Scenario)
            /\ Scenario[Len(scen) + 1] = [t |-> now, conf |-> conf]
            /\ resp \in {NoResponse, Http(200)}
         THEN Append(scen, IF result THEN "sent" ELSE "suppressed")
         ELSE <<"off">>

\* VideoStreamer.fallback_indexes, in the order they are tried.
fallback_indexes == <<0, 1, 2>>
CameraIndexes == {0, 1, 2}
\* What a stream generator yields: a published frame (its capture number) or
\* the placeholder frame; NoPayload when it has yielded nothing.
NoPayload == 0
Placeholder == 0 - 1

\* The first index of idxs, skipping `skip`, that opens; NoIndex when none does.
NoIndex == 0 - 1
RECURSIVE FirstOpening(_, _, _)
FirstOpening(idxs, skip, avail) ==
    IF idxs = <<>> THEN NoIndex
    ELSE IF Head(idxs) # skip /\ Head(idxs) \in avail THEN Head(idxs)
    ELSE FirstOpening(Tail(idxs), skip, avail)

\* The indexes of idxs the fallback loop tries, in order: every index but
\* `skip`, up to and including the first that opens.
RECURSIVE TriedFallbacks(_, _, _)
TriedFallbacks(idxs, skip, avail) ==
    IF idxs = <<>> THEN <<>>
    ELSE IF Head(idxs) = skip THEN TriedFallbacks(Tail(idxs), skip, avail)
    ELSE IF Head(idxs) \in avail THEN <<Head(idxs)>>
    ELSE <<Head(idxs)>> \o TriedFallbacks(Tail(idxs), skip, avail)

\* VideoStreamer.initialize_camera(try_alternatives=True) when the devices of
\* avail can be opened: its result, the fields it leaves and the indexes it
\* tried.  cap is "none"
\* (None), "open" (isOpened()) or "closed" (a capture object that is not open).
initialize_cameraForgetful(avail) ==
    IF cap = "open"
    THEN [ok |-> TRUE, cap |-> "open", camera_index |-> camera_index,
          tried |-> <<>>]
    ELSE IF camera_index \in avail
    THEN [ok |-> TRUE, cap |-> "open", camera_index |-> camera_index,
          tried |-> <<camera_index>>]
    ELSE LET idx == FirstOpening(fallback_indexes, camera_index, avail)
             all == <<camera_index>>
                      \o TriedFallbacks(fallback_indexes, camera_index, avail)
         IN IF idx # NoIndex
            THEN [ok |-> TRUE, cap |-> "open", camera_index |-> camera_index,
                  tried |-> all]
            ELSE [ok |-> FALSE, cap |-> "closed", camera_index |-> camera_index,
                  tried |-> all]

initialize_camera(avail) ==
    IF cap = "open"
    THEN [ok |-> TRUE, cap |-> "open", camera_index |-> camera_index,
          tried |-> <<>>]
    ELSE IF camera_index \in avail
    THEN [ok |-> TRUE, cap |-> "open", camera_index |-> camera_index,
          tried |-> <<camera_index>>]
    ELSE LET idx == FirstOpening(fallback_indexes, camera_index, avail)
             all == <<camera_index>>
                      \o TriedFallbacks(fallback_indexes, camera_index, avail)
         IN IF idx # NoIndex
            THEN [ok |-> TRUE, cap |-> "open", camera_index |-> idx,
                  tried |-> all]
            ELSE [ok |-> FALSE, cap |-> "closed", camera_index |-> camera_index,
                  tried |-> all]

\* The locals of send_alert before a call and after its return.
SaIdle ==
    /\ detection_type' = "gun" /\ confidence' = 0 /\ current_time' = 0
    /\ response' = NoResponse /\ sa_result' = FALSE /\ sa_pre' = <<>>

\* -------------------------------------------------------------------- Init
InitCommon ==
    /\ clock = 0
    /\ last_gun_alert = 0 /\ last_knife_alert = 0 /\ detection_count = 0
    /\ current_frame = 0 /\ frame_lock = 0
    /\ last_alert_time = 0 /\ gds_detection_count = 0
    /\ pc = "read" /\ frame_count = 0 /\ frame = <<>> /\ pred = <<>> /\ i = 1
    /\ detections = <<>>
    /\ detection_type = "gun" /\ confidence = 0 /\ current_time = 0
    /\ response = NoResponse /\ sa_result = FALSE
    /\ sa_pre = <<>>
    /\ last_sent = [t \in AlertTypes |-> Never]
    /\ last_accepted = [t \in AlertTypes |-> Never]
    /\ scen = <<>>
    /\ ws_current_frame = 0 /\ camera_active = FALSE /\ ws_frame_count = 0
    /\ camera_lock = 0
    /\ running = FALSE /\ cap = "none" /\ camera_index = 0 /\ ws_pc = "start"
    /\ gen_pc = [c \in Clients |-> "idle"]
    /\ gen_saw = [c \in Clients |-> "nothing"]
    /\ gen_out = [c \in Clients |-> 0]
    /\ snap_pc = "idle"
    /\ last_failed = [t \in AlertTypes |-> FALSE]
    /\ cycle_timeouts = 0 /\ read_failures = 0
    /\ ws_read_failed = FALSE /\ tried = <<>>
    /\ results_shape = "none"
    /\ st_pc = "main" /\ cfg = NoConfig /\ st_response = NoResponse
    /\ main_pc = "serving"

Init == InitCommon /\ program \in {"enhanced", "gun", "startup"}

\* ------------------------------------------- EnhancedDetectionService loop
\* run_detection: self.cap.read() delivers a frame.
EnhReadOk ==
    /\ program = "enhanced" /\ pc = "read" /\ frame_count < MaxFrames
    /\ frame_count' = frame_count + 1
    /\ frame' = <<>>
    /\ cycle_timeouts' = 0
    /\ read_failures' = 0
    /\ pc' = "infer"
    /\ UNCHANGED <<program, clock, enhFields, enhStream, gdsFields, pred, i,
                   detections, saVars, histVars, wsVars, genVars, last_failed,
                   snapVars, strObs,
                   startVars, results_shape, main_pc>>

\* run_detection: self.cap.read() fails, the loop breaks and cleanup runs.
EnhReadFail ==
    /\ program = "enhanced" /\ pc = "read"
    /\ read_failures' = read_failures + 1
    /\ pc' = "stopped"
    /\ UNCHANGED <<program, clock, enhFields, enhStream, gdsFields, frame_count,
                   frame, pred, i, detections, saVars, histVars, wsVars, genVars,
                   last_failed, cycle_timeouts, snapVars, strObs,
                   startVars, results_shape, main_pc>>

\* run_detection: self.weapon_model(frame) returns a result.
EnhInfer(scenes) ==
    /\ program = "enhanced" /\ pc = "infer"
    /\ \E s \in scenes : /\ pred' = s
                         /\ results_shape' = ShapeOf(s)
    /\ i' = 1
    /\ detections' = <<>>
    /\ pc' = "process"
    /\ UNCHANGED <<program, clock, enhFields, enhStream, gdsFields, frame_count,
                   frame, saVars, histVars, wsVars, genVars,
                   obsVars, snapVars, strObs,
                   startVars, main_pc>>

\* run_detection: self.weapon_model(frame) returns a result of another shape:
\* an empty list, a single result object, or an object of none of the shapes
\* process_detections knows.
EnhInferOther ==
    /\ program = "enhanced" /\ pc = "infer"
    /\ \E r \in OtherResults : /\ pred' = r.rows
                               /\ results_shape' = r.shape
    /\ i' = 1
    /\ detections' = <<>>
    /\ pc' = "process"
    /\ UNCHANGED <<program, clock, enhFields, enhStream, gdsFields, frame_count,
                   frame, saVars, histVars, wsVars, genVars,
                   obsVars, snapVars, strObs,
                   startVars, main_pc>>

\* run_detection: inference raises, the frame is dropped.
EnhInferFailPublishing ==
    /\ program = "enhanced" /\ pc = "infer"
    /\ current_frame' = frame_count
    /\ pc' = "read"
    /\ UNCHANGED <<program, clock, enhFields, frame_lock, gdsFields, frame_count,
                   frame, pred, i, detections, saVars, histVars, wsVars, genVars,
                   obsVars, snapVars, strObs,
                   startVars, results_shape, main_pc>>
EnhInferFail ==
    /\ program = "enhanced" /\ pc = "infer"
    /\ pc' = "read"
    /\ UNCHANGED <<program, clock, enhFields, enhStream, gdsFields, frame_count,
                   frame, pred, i, detections, saVars, histVars, wsVars, genVars,
                   obsVars, snapVars, strObs,
                   startVars, results_shape, main_pc>>

\* process_detections: one row of the loop over pred, up to the call of
\* send_alert (the row's box is drawn after the call returns).
EnhProcessRow ==
    /\ program = "enhanced" /\ pc = "process"
    /\ i <= Len(Extracted(results_shape, pred))
    /\ LET r == pred[i] IN
       IF r.fields < 6
       THEN /\ i' = i + 1
            /\ UNCHANGED <<pc, frame, detections, saVars, sa_pre>>
       ELSE IF UnpackRaises(r)
       THEN /\ pc' = "process_raised"
            /\ UNCHANGED <<i, frame, detections, saVars, sa_pre>>
       ELSE IF ~HasName(r)
       THEN /\ i' = i + 1
            /\ UNCHANGED <<pc, frame, detections, saVars, sa_pre>>
       ELSE IF PassesDisplay(r.conf)
       THEN /\ detections' = Append(detections, r)
            /\ IF is_weapon(r.cls) /\ PassesAlert(r.conf)
               THEN /\ detection_type' = weapon_type(r.cls)
                    /\ confidence' = r.conf
                    /\ response' = NoResponse
                    /\ sa_result' = FALSE
                    /\ sa_pre' = AlertState
                    /\ pc' = "send_alert"
                    /\ UNCHANGED <<frame, i, current_time>>
               ELSE /\ frame' = Append(frame, Box(r))
                    /\ i' = i + 1
                    /\ UNCHANGED <<pc, saVars, sa_pre>>
       ELSE /\ i' = i + 1
            /\ UNCHANGED <<pc, frame, detections, saVars, sa_pre>>
    /\ UNCHANGED <<program, clock, enhFields, enhStream, gdsFields, frame_count,
                   pred, last_sent, last_accepted, scen, wsVars, genVars,
                   obsVars, snapVars, strObs,
                   startVars, results_shape, main_pc>>

\* send_alert: read the clock and check the cooldown of the detection type.
EnhSendAlertCheck ==
    /\ program = "enhanced" /\ pc = "send_alert"
    /\ \E t \in Times :
         /\ t >= clock
         /\ clock' = t
         /\ current_time' = t
         /\ IF CooldownActive(t, LastAlertOf(detection_type))
            THEN /\ pc' = "alert_return"
                 /\ scen' = ScenAfter(detection_type, confidence, t, NoResponse, FALSE)
            ELSE /\ pc' = "post"
                 /\ UNCHANGED scen
    /\ UNCHANGED <<program, enhFields, enhStream, gdsFields, frame_count, frame,
                   pred, i, detections, detection_type, confidence, response,
                   sa_result, sa_pre, last_sent, last_accepted, wsVars, genVars,
                   obsVars, snapVars, strObs,
                   startVars, results_shape, main_pc>>

\* send_alert: requests.post returns or raises; the clock of the detection
\* type and the alert counter are written on an accepted response.
EnhSendAlertResponseRetrying ==
    /\ program = "enhanced" /\ pc = "post"
    /\ \E t \in Times : t >= clock /\ clock' = t
    /\ \E out \in Outcomes :
         /\ response' = out
         /\ sa_result' = Accepted(out)
         /\ last_gun_alert' =
              IF detection_type = "gun"
              THEN ClockAfterResponse(out, current_time, last_gun_alert)
              ELSE last_gun_alert
         /\ last_knife_alert' =
              IF detection_type = "gun" THEN last_knife_alert
              ELSE ClockAfterResponse(out, current_time, last_knife_alert)
         /\ detection_count' = IF Accepted(out) THEN detection_count + 1
                               ELSE detection_count
         /\ last_sent' = IF Accepted(out)
                         THEN [last_sent EXCEPT ![detection_type] = current_time]
                         ELSE last_sent
         /\ last_accepted' =
              IF out.kind = "http" /\ out.status \in 200..299
              THEN [last_accepted EXCEPT ![detection_type] = current_time]
              ELSE last_accepted
         /\ scen' = ScenAfter(detection_type, confidence, current_time, out,
                              Accepted(out))
    /\ cycle_timeouts' = IF response'.kind = "timeout" THEN cycle_timeouts + 1
                         ELSE cycle_timeouts
    /\ pc' = IF Accepted(response') \/ response # NoResponse
             THEN "alert_return" ELSE "post"
    /\ UNCHANGED <<program, enhStream, gdsFields, frame_count, frame, pred,
                   i, detections, detection_type, confidence, current_time,
                   sa_pre, wsVars, genVars, last_failed,
                   read_failures, snapVars, strObs,
                   startVars, results_shape, main_pc>>
EnhSendAlertResponse ==
    /\ program = "enhanced" /\ pc = "post"
    /\ \E t \in Times : t >= clock /\ clock' = t
    /\ \E out \in Outcomes :
         /\ response' = out
         /\ sa_result' = Accepted(out)
         /\ last_gun_alert' =
              IF detection_type = "gun"
              THEN ClockAfterResponse(out, current_time, last_gun_alert)
              ELSE last_gun_alert
         /\ last_knife_alert' =
              IF detection_type = "gun" THEN last_knife_alert
              ELSE ClockAfterResponse(out, current_time, last_knife_alert)
         /\ detection_count' = IF Accepted(out) THEN detection_count + 1
                               ELSE detection_count
         /\ last_sent' = IF Accepted(out)
                         THEN [last_sent EXCEPT ![detection_type] = current_time]
                         ELSE last_sent
         /\ last_accepted' =
              IF out.kind = "http" /\ out.status \in 200..299
              THEN [last_accepted EXCEPT ![detection_type] = current_time]
              ELSE last_accepted
         /\ scen' = ScenAfter(detection_type, confidence, current_time, out,
                              Accepted(out))
    /\ cycle_timeouts' = IF response'.kind = "timeout" THEN cycle_timeouts + 1
                         ELSE cycle_timeouts
    /\ pc' = "alert_return"
    /\ UNCHANGED <<program, enhStream, gdsFields, frame_count, frame, pred,
                   i, detections, detection_type, confidence, current_time,
                   sa_pre, wsVars, genVars, last_failed,
                   read_failures, snapVars, strObs,
                   startVars, results_shape, main_pc>>

\* process_detections: back from send_alert, the warning text and the box of
\* the row are drawn.
EnhAlertReturn ==
    /\ program = "enhanced" /\ pc = "alert_return"
    /\ frame' = frame \o <<Warning(pred[i]), Box(pred[i])>>
    /\ i' = i + 1
    /\ pc' = "process"
    /\ SaIdle
    /\ last_failed' = [last_failed EXCEPT
                         ![detection_type] = response # NoResponse /\ ~sa_result]
    /\ UNCHANGED <<program, clock, enhFields, enhStream, gdsFields, frame_count,
                   pred, detections, last_sent, last_accepted, scen, wsVars,
                   genVars, cycle_timeouts, read_failures, snapVars, strObs,
                   startVars, results_shape, main_pc>>

\* process_detections: the loop is over, the summary line is drawn and the
\* detections are returned.
EnhProcessDone ==
    /\ program = "enhanced" /\ pc = "process"
    /\ i > Len(Extracted(results_shape, pred))
    /\ frame' = Append(frame, Summary(Len(detections)))
    /\ pred' = <<>>
    /\ i' = 1
    /\ pc' = "publish"
    /\ UNCHANGED <<program, clock, enhFields, enhStream, gdsFields, frame_count,
                   detections, saVars, histVars, wsVars, genVars,
                   obsVars, snapVars, strObs,
                   startVars, results_shape, main_pc>>

\* run_detection: process_detections raised; the error is logged and the loop
\* continues with the next capture (the frame is not published).
EnhProcessExcept ==
    /\ program = "enhanced" /\ pc = "process_raised"
    /\ frame' = <<>>
    /\ pred' = <<>>
    /\ i' = 1
    /\ detections' = <<>>
    /\ results_shape' = "none"
    /\ pc' = "read"
    /\ UNCHANGED <<program, clock, enhFields, enhStream, gdsFields, frame_count,
                   saVars, histVars, wsVars, genVars,
                   obsVars, snapVars, strObs,
                   startVars, main_pc>>

\* run_detection: `with self.frame_lock:` is entered.
EnhPublishAcquire ==
    /\ program = "enhanced" /\ pc = "publish" /\ frame_lock = 0
    /\ frame_lock' = -1
    /\ pc' = "publishing"
    /\ UNCHANGED <<program, clock, enhFields, current_frame, gdsFields,
                   frame_count, frame, pred, i, detections, saVars, histVars,
                   wsVars, genVars,
                   obsVars, snapVars, strObs,
                   startVars, results_shape, main_pc>>

\* run_detection: self.current_frame = frame.copy(), the lock is released and
\* the iteration ends (its frame and detections are dropped).
EnhPublishWrite ==
    /\ program = "enhanced" /\ pc = "publishing"
    /\ current_frame' = frame_count
    /\ frame_lock' = 0
    /\ frame' = <<>>
    /\ detections' = <<>>
    /\ results_shape' = "none"
    /\ pc' = "read"
    /\ UNCHANGED <<program, clock, enhFields, gdsFields, frame_count, pred,
                   i, saVars, histVars, wsVars, genVars,
                   obsVars, snapVars, strObs,
                   startVars, main_pc>>

\* --------------------------------------------- GunDetectionService loop
\* run: self.cap.read() delivers a frame.
GdsReadOk ==
    /\ program = "gun" /\ pc = "read" /\ frame_count < MaxFrames
    /\ frame_count' = frame_count + 1
    /\ frame' = <<>>
    /\ cycle_timeouts' = 0
    /\ read_failures' = 0
    /\ pc' = "infer"
    /\ UNCHANGED <<program, clock, enhFields, enhStream, gdsFields, pred, i,
                   detections, saVars, histVars, wsVars, genVars, last_failed,
                   snapVars, strObs,
                   startVars, results_shape, main_pc>>

\* run: self.cap.read() fails, the loop breaks and cleanup runs.
GdsReadFail ==
    /\ program = "gun" /\ pc = "read"
    /\ read_failures' = read_failures + 1
    /\ pc' = "stopped"
    /\ UNCHANGED <<program, clock, enhFields, enhStream, gdsFields, frame_count,
                   frame, pred, i, detections, saVars, histVars, wsVars, genVars,
                   last_failed, cycle_timeouts, snapVars, strObs,
                   startVars, results_shape, main_pc>>

\* run: self.model(frame) returns a result.
GdsInfer(scenes) ==
    /\ program = "gun" /\ pc = "infer"
    /\ \E s \in scenes : pred' = s
    /\ pc' = "process"
    /\ UNCHANGED <<program, clock, enhFields, enhStream, gdsFields, frame_count,
                   frame, i, detections, saVars, histVars, wsVars, genVars,
                   obsVars, snapVars, strObs,
                   startVars, results_shape, main_pc>>

\* run: self.model(frame) raises; the handler of the loop logs the error, the
\* loop is over and cleanup runs.
GdsInferFail ==
    /\ program = "gun" /\ pc = "infer"
    /\ pc' = "failed"
    /\ UNCHANGED <<program, clock, enhFields, enhStream, gdsFields, frame_count,
                   frame, pred, i, detections, saVars, histVars, wsVars, genVars,
                   obsVars, snapVars, strObs,
                   startVars, results_shape, main_pc>>

\* run: process_detections raises on a row; the handler of the loop logs the
\* error, the loop is over and cleanup runs.
GdsProcessRaise ==
    /\ program = "gun" /\ pc = "process" /\ GdsRaises(pred)
    /\ pc' = "failed"
    /\ UNCHANGED <<program, clock, enhFields, enhStream, gdsFields, frame_count,
                   frame, pred, i, detections, saVars, histVars, wsVars, genVars,
                   obsVars, snapVars, strObs,
                   startVars, results_shape, main_pc>>

\* run: process_detections filters the rows and draws their boxes.
GdsProcessDetections ==
    /\ program = "gun" /\ pc = "process" /\ ~GdsRaises(pred)
    /\ detections' = GdsFilter(pred)
    /\ frame' = Boxes(GdsFilter(pred))
    /\ i' = 1
    /\ pc' = "alerts"
    /\ UNCHANGED <<program, clock, enhFields, enhStream, gdsFields, frame_count,
                   pred, saVars, histVars, wsVars, genVars,
                   obsVars, snapVars, strObs,
                   startVars, results_shape, main_pc>>

\* run: `for detection_type, confidence in detections: self.send_alert(...)`.
GdsAlertLoop ==
    /\ program = "gun" /\ pc = "alerts" /\ i <= Len(detections)
    /\ detection_type' = detections[i].cls
    /\ confidence' = detections[i].conf
    /\ response' = NoResponse
    /\ sa_result' = FALSE
    /\ sa_pre' = AlertState
    /\ pc' = "send_alert"
    /\ UNCHANGED <<program, clock, enhFields, enhStream, gdsFields, frame_count,
                   frame, pred, i, detections, current_time, last_sent,
                   last_accepted, scen, wsVars, genVars,
                   obsVars, snapVars, strObs,
                   startVars, results_shape, main_pc>>

\* send_alert: read the clock and check the one cooldown clock.
GdsSendAlertCheck ==
    /\ program = "gun" /\ pc = "send_alert"
    /\ \E t \in Times :
         /\ t >= clock
         /\ clock' = t
         /\ current_time' = t
         /\ pc' = IF GdsCooldownActive(t, last_alert_time)
                  THEN "alert_return" ELSE "post"
    /\ UNCHANGED <<program, enhFields, enhStream, gdsFields, frame_count, frame,
                   pred, i, detections, detection_type, confidence, response,
                   sa_result, histVars, wsVars, genVars,
                   obsVars, snapVars, strObs,
                   startVars, results_shape, main_pc>>

\* send_alert: requests.post returns or raises; the clock and the alert counter
\* are written on an accepted response.
GdsSendAlertResponse ==
    /\ program = "gun" /\ pc = "post"
    /\ \E t \in Times : t >= clock /\ clock' = t
    /\ \E out \in Outcomes :
         /\ response' = out
         /\ sa_result' = GdsAccepted(out)
         /\ last_alert_time' = IF GdsAccepted(out) THEN current_time
                               ELSE last_alert_time
         /\ gds_detection_count' = IF GdsAccepted(out) THEN gds_detection_count + 1
                                   ELSE gds_detection_count
         /\ last_sent' = IF GdsAccepted(out)
                         THEN [last_sent EXCEPT ![detection_type] = current_time]
                         ELSE last_sent
         /\ last_accepted' =
              IF out.kind = "http" /\ out.status \in 200..299
              THEN [last_accepted EXCEPT ![detection_type] = current_time]
              ELSE last_accepted
    /\ cycle_timeouts' = IF response'.kind = "timeout" THEN cycle_timeouts + 1
                         ELSE cycle_timeouts
    /\ pc' = "alert_return"
    /\ UNCHANGED <<program, enhFields, enhStream, frame_count, frame, pred,
                   i, detections, detection_type, confidence, current_time,
                   sa_pre, scen, wsVars, genVars, last_failed,
                   read_failures, snapVars, strObs,
                   startVars, results_shape, main_pc>>

\* run: back from send_alert, the next detection of the frame.
GdsAlertReturn ==
    /\ program = "gun" /\ pc = "alert_return"
    /\ i' = i + 1
    /\ pc' = "alerts"
    /\ SaIdle
    /\ last_failed' = [last_failed EXCEPT
                         ![detection_type] = response # NoResponse /\ ~sa_result]
    /\ UNCHANGED <<program, clock, enhFields, enhStream, gdsFields, frame_count,
                   frame, pred, detections, last_sent, last_accepted, scen,
                   wsVars, genVars, cycle_timeouts, read_failures, snapVars,
                   strObs,
                   startVars, results_shape, main_pc>>

\* run: every detection of the frame was handled; the iteration ends (its
\* frame, results and detections are dropped) and the next frame is read.
GdsCycleEnd ==
    /\ program = "gun" /\ pc = "alerts" /\ i > Len(detections)
    /\ frame' = <<>>
    /\ pred' = <<>>
    /\ detections' = <<>>
    /\ i' = 1
    /\ pc' = "read"
    /\ UNCHANGED <<program, clock, enhFields, enhStream, gdsFields, frame_count,
                   saVars, histVars, wsVars, genVars,
                   obsVars, snapVars, strObs,
                   startVars, results_shape, main_pc>>

\* ------------------------------------------------- alerting specification
\* Either alerting service, fed frames with detections; no streaming client.
\* --------------------------------------------- main() and construction
\* main: the arguments are parsed; --confidence and --cooldown are taken as
\* given, without validation.
StMain ==
    /\ program = "startup" /\ st_pc = "main"
    /\ \E c \in ArgConfidences, cd \in ArgCooldowns :
         cfg' = [confidence_threshold |-> c, alert_threshold |-> 0,
                 cooldown_seconds |-> cd]
    /\ st_pc' = "init"
    /\ UNCHANGED <<program, clock, enhFields, enhStream, gdsFields, loopVars,
                   saVars, histVars, wsVars, genVars, snapVars, obsVars, strObs,
                   st_response, results_shape, main_pc>>

\* __init__: the thresholds are stored, the counter, the clocks and the frame
\* slot get their initial values.
StInit ==
    /\ program = "startup" /\ st_pc = "init"
    /\ cfg' = [cfg EXCEPT !.alert_threshold = alert_threshold]
    /\ detection_count' = 0
    /\ last_gun_alert' = 0
    /\ last_knife_alert' = 0
    /\ current_frame' = 0
    /\ frame_lock' = 0
    /\ st_pc' = "register"
    /\ UNCHANGED <<program, clock, gdsFields, loopVars,
                   saVars, histVars, wsVars, genVars, snapVars, obsVars, strObs,
                   st_response, results_shape, main_pc>>

\* __init__ -> register_camera_with_backend: one POST with a timeout; every
\* answer and every exception ends in a log line and the constructor returns.
StRegisterRaising ==
    /\ program = "startup" /\ st_pc = "register"
    /\ \E out \in Outcomes :
         /\ st_response' = out
         /\ st_pc' = IF out.kind = "http" THEN "constructed" ELSE "raised"
    /\ UNCHANGED <<program, clock, enhFields, enhStream, gdsFields, loopVars,
                   saVars, histVars, wsVars, genVars, snapVars, obsVars, strObs,
                   cfg, results_shape, main_pc>>
StRegister ==
    /\ program = "startup" /\ st_pc = "register"
    /\ \E out \in Outcomes : st_response' = out
    /\ st_pc' = "constructed"
    /\ UNCHANGED <<program, clock, enhFields, enhStream, gdsFields, loopVars,
                   saVars, histVars, wsVars, genVars, snapVars, obsVars, strObs,
                   cfg, results_shape, main_pc>>

\* main: service.run(...) is called on the constructed service.
StRun ==
    /\ program = "startup" /\ st_pc = "constructed"
    /\ st_pc' = "running"
    /\ UNCHANGED <<program, clock, enhFields, enhStream, gdsFields, loopVars,
                   saVars, histVars, wsVars, genVars, snapVars, obsVars, strObs,
                   cfg, st_response, results_shape, main_pc>>

Next ==
    \/ EnhReadOk \/ EnhReadFail \/ EnhInfer(AllScenes) \/ EnhInferOther
    \/ EnhInferFail
    \/ EnhProcessRow \/ EnhProcessExcept \/ EnhSendAlertCheck
    \/ EnhSendAlertResponse \/ EnhAlertReturn \/ EnhProcessDone
    \/ EnhPublishAcquire \/ EnhPublishWrite
    \/ GdsReadOk \/ GdsReadFail \/ GdsInfer(AllScenes) \/ GdsInferFail
    \/ GdsProcessRaise \/ GdsProcessDetections
    \/ GdsAlertLoop \/ GdsSendAlertCheck \/ GdsSendAlertResponse
    \/ GdsAlertReturn \/ GdsCycleEnd
    \/ StMain \/ StInit \/ StRegister \/ StRun

Spec == Init /\ [][Next]_vars

\* ------------------------------------------------------ claims: alerting
Range(seq) == {seq[k] : k \in 1..Len(seq)}
Is2xx(resp) == resp.kind = "http" /\ resp.status \in 200..299
\* send_alert has returned without a POST / after a POST.
Suppressed == pc = "alert_return" /\ response = NoResponse
Dispatched == pc = "alert_return" /\ response # NoResponse
\* The clock that gates a detection type in the running service.
ClockOf(type) == IF program = "enhanced" THEN LastAlertOf(type) ELSE last_alert_time
DisplayThreshold ==
    IF program = "enhanced" THEN confidence_threshold ELSE gds_confidence_threshold
\* A row of 6 fields whose class index has a name.
WellFormed(r) == r.fields = 6 /\ r.cls \in Classes

\* C1: in EnhancedDetectionService at most one alert per type is successfully
\* sent (accepted by the backend) per cooldown window: a POST is only attempted
\* for a type whose last accepted alert was decided at least cooldown_seconds
\* before the current decision time.
C1_OnePerWindow ==
    (program = "enhanced" /\ pc = "post" /\ last_accepted[detection_type] # Never)
        => current_time - last_accepted[detection_type] >= cooldown_seconds

\* C2: a failed dispatch (non-accepted response, transport failure, timeout or
\* other exception; send_alert returns False) leaves every cooldown clock and
\* the alert counter as they were at the call.
C2_FailedDispatchKeepsClock ==
    (Dispatched /\ (~Is2xx(response) \/ ~sa_result)) => AlertState = sa_pre

\* C2 witness: a POST of a gun alert timed out at a time later than the gun
\* clock, and the clocks are those of the call.
C2_Witness ==
    /\ program = "enhanced" /\ Dispatched /\ response.kind = "timeout"
    /\ detection_type = "gun" /\ current_time > last_gun_alert
    /\ AlertState = sa_pre

\* C3: the classes have independent cooldown clocks in both services: a sent
\* alert of one type leaves the clock gating the other type unchanged, and a
\* call is suppressed only when an alert of its own type was sent less than
\* cooldown_seconds before (calls at a time below cooldown_seconds aside).
C3_IndependentClocks ==
    /\ [](Suppressed /\ current_time >= cooldown_seconds
            => /\ last_sent[detection_type] # Never
               /\ current_time - last_sent[detection_type] < cooldown_seconds)
    /\ [][(pc = "post" /\ pc' = "alert_return" /\ sa_result')
            => \A d \in AlertTypes \ {detection_type} : ClockOf(d)' = ClockOf(d)]_vars

\* C4: the first alert-eligible detection of a class (no alert of the class
\* sent before) is never suppressed by the cooldown check, at any current time.
C4_FirstAlertNeverSuppressed ==
    ~(/\ program = "enhanced" /\ Suppressed
      /\ last_sent[detection_type] = Never
      /\ last_accepted[detection_type] = Never)

\* C5: cooldown 10 s, alert threshold 0.7, backend accepting: gun detections
\* (t=0, 0.9), (t=5, 0.95), (t=11, 0.8) give sent with the gun clock 0,
\* suppressed, sent with the gun clock 11.
C5_Scenario ==
    (program = "enhanced" /\ scen # <<"off">>) =>
        /\ Len(scen) >= 1 => scen[1] = "sent"
        /\ Len(scen) \in {1, 2} => last_gun_alert = 0
        /\ Len(scen) >= 2 => scen[2] = "suppressed"
        /\ Len(scen) = 3 => (scen[3] = "sent" /\ last_gun_alert = 11)

\* C6: send_alert reports success and advances the clock of the type exactly
\* when the backend answers with a 2xx status.
C6_SuccessIff2xx ==
    Dispatched =>
        /\ sa_result <=> Is2xx(response)
        /\ Is2xx(response) => ClockOf(detection_type) = current_time

\* C7: every dispatch attempt, in both services, is for a detection with a
\* confidence of at least alert_threshold.
C7_DispatchAboveAlertThreshold ==
    pc = "post" => confidence >= alert_threshold

\* C8: below the display threshold a detection is never annotated (neither
\* returned nor drawn) and never alerted; at or above it (the threshold value
\* included) a processed detection (a well-formed row) is returned and drawn.
C8_DisplayThreshold ==
    /\ \A a \in Range(frame) :
         a.what \in {"box", "warning"} => a.conf >= DisplayThreshold
    /\ \A d \in Range(detections) : d.conf >= DisplayThreshold
    /\ pc \in {"send_alert", "post", "alert_return"} => confidence >= DisplayThreshold
    /\ (program = "enhanced" /\ pc \in {"process", "send_alert", "post", "alert_return"})
         => /\ \A k \in 1..(i - 1) :
                 (pred[k].conf >= DisplayThreshold /\ WellFormed(pred[k]))
                   => pred[k] \in Range(detections) /\ Box(pred[k]) \in Range(frame)
            /\ pc # "process" => pred[i] \in Range(detections)
    /\ (program = "gun" /\ pc \in {"alerts", "send_alert", "post", "alert_return"})
         => \A k \in 1..Len(pred) :
              (pred[k].conf >= DisplayThreshold /\ pred[k].cls \in {"gun", "knife"})
                => pred[k] \in Range(detections) /\ Box(pred[k]) \in Range(frame)

\* C8 witness: a frame with a detection below the threshold and one exactly at
\* it was processed; only the second was returned and drawn.
C8_Witness ==
    /\ program = "enhanced" /\ pc = "process" /\ Len(pred) = 2 /\ i = 3
    /\ pred[1].conf < confidence_threshold /\ pred[2].conf = confidence_threshold
    /\ detections = <<pred[2]>>
    /\ Box(pred[2]) \in Range(frame) /\ Box(pred[1]) \notin Range(frame)

\* C13: in EnhancedDetectionService a send_alert call for a type whose last
\* returned call failed at its dispatch is attempted again, never suppressed,
\* and an attempt the backend answers with 200 is a sent alert of the type.
C13_RetryAfterFailedDispatch ==
    /\ (program = "enhanced" /\ Suppressed) => ~last_failed[detection_type]
    /\ (program = "enhanced" /\ Dispatched /\ Accepted(response))
         => (sa_result /\ last_sent[detection_type] = current_time)

\* C13 witness: the last gun call failed at its dispatch, the next gun call
\* was dispatched and sent.
C13_Witness ==
    /\ program = "enhanced" /\ Dispatched /\ sa_result
    /\ detection_type = "gun" /\ last_failed["gun"]
    /\ last_sent["gun"] = current_time

\* C14: within one producer cycle at most one dispatch call runs to its
\* timeout, whatever the number of alert-eligible detections of the frame.
C14_OneTimeoutPerCycle == cycle_timeouts <= 1

\* C15: the producer loop is not ended by a single failed read: it stops only
\* after more than one consecutive failed read.
C15_StopAfterRetryBudget == pc = "stopped" => read_failures > 1

\* C19: a failure confined to one frame or one alert (inference, detection
\* processing, dispatch) never ends the producer loop: the loop of either
\* service is only left after a failed read.
C19_FailuresStayLocal == pc \in {"stopped", "failed"} => read_failures > 0

\* C20: process_detections never raises on malformed rows (a field count
\* other than 6, a class index without a name) and drops them: no such row is
\* among the detections.
C20_MalformedRowsDropped ==
    /\ pc # "process_raised"
    /\ ~(program = "gun" /\ pc = "failed" /\ GdsRaises(pred))
    /\ \A d \in Range(detections) : WellFormed(d)

\* Control is inside EnhancedDetectionService.process_detections, the step that
\* draws on the frame (send_alert is called from its loop).
InProcessDetections ==
    program = "enhanced" /\ pc \in {"process", "send_alert", "post", "alert_return"}

\* C21: in EnhancedDetectionService a raw result that is an empty list or has
\* none of the known shapes yields the empty table without raising: while such
\* a result is the current one no detection is returned, no box or warning is
\* drawn and send_alert is not entered.
C21_UnknownShapeIsEmpty ==
    (program = "enhanced" /\ results_shape \in {"empty_list", "unknown"})
        => /\ Extracted(results_shape, pred) = <<>>
           /\ pc \notin {"process_raised", "send_alert", "post", "alert_return"}
           /\ detections = <<>>
           /\ \A a \in Range(frame) : a.what = "summary"

\* C21 witness: a result of unknown shape that holds a gun row at 0.9 has been
\* processed; the frame about to be published carries the summary line only.
C21_Witness ==
    /\ program = "enhanced" /\ results_shape = "unknown" /\ pc = "publish"
    /\ frame = <<Summary(0)>> /\ detections = <<>>

\* C22: while a frame is being annotated (control inside process_detections)
\* the cooldown clocks and the alert counter do not change and no HTTP request
\* is issued.
C22_AnnotationHasNoAlertEffects ==
    [][InProcessDetections => (AlertState' = AlertState /\ pc' # "post")]_vars

\* C23: the still image attached to an alert of EnhancedDetectionService (the
\* frame as it is when send_alert encodes it) carries no box, label or banner.
C23_AlertImageUnannotated ==
    (program = "enhanced" /\ pc = "post") => frame = <<>>

\* C25: whatever the answer to the registration call, the constructor of
\* EnhancedDetectionService returns (the step out of the registration leads to
\* the constructed service), the cooldown clocks, the counter and the frame
\* slot have their initial values, and service.run can be called.
C25_RegistrationNeverBlocks ==
    /\ [][(st_pc = "register" /\ st_pc' # st_pc) => st_pc' = "constructed"]_vars
    /\ []((program = "startup" /\ st_pc \in {"constructed", "running"})
            => /\ last_gun_alert = 0 /\ last_knife_alert = 0
               /\ detection_count = 0 /\ current_frame = 0)
    /\ []((program = "startup" /\ st_pc = "constructed") => ENABLED StRun)

\* C25 witness: the registration call timed out and service.run was called.
C25_Witness ==
    /\ program = "startup" /\ st_pc = "running" /\ st_response.kind = "timeout"
    /\ last_gun_alert = 0 /\ last_knife_alert = 0 /\ detection_count = 0

\* C26: in every constructed EnhancedDetectionService the alert threshold is
\* strictly higher than the configured confidence threshold.
C26_AlertAboveDisplay ==
    (program = "startup" /\ st_pc \in {"register", "constructed", "running"})
        => cfg.alert_threshold > cfg.confidence_threshold

\* The cooldown of the running service.
CooldownOf ==
    IF program = "enhanced" THEN cooldown_seconds ELSE gds_cooldown_seconds

\* C28: for a class whose last sent alert was decided at time L, a send_alert
\* call made at time now goes on to the POST if and only if
\* now - L >= cooldown_seconds.
C28_CooldownBoundary ==
    (program \in {"enhanced", "gun"} /\ last_sent[detection_type] # Never)
        => /\ pc = "post"
                => current_time - last_sent[detection_type] >= CooldownOf
           /\ Suppressed
                => current_time - last_sent[detection_type] < CooldownOf

\* C29: a send_alert call issues at most one POST (no POST is issued after an
\* answer or a failure of the same call), and a call that returns without a
\* POST leaves the cooldown clocks and the alert counter as they were at entry.
C29_NoInternalRetry ==
    /\ pc = "post" => response = NoResponse
    /\ Suppressed => AlertState = sa_pre

\* C29 witness: a send_alert call whose single POST timed out has returned, and
\* the alert state is as at entry.
C29_Witness ==
    /\ Dispatched /\ response.kind = "timeout" /\ ~sa_result
    /\ AlertState = sa_pre

\* C30: the alert state is written only by the step that receives an accepted
\* response to the POST, and the clock value committed is current_time, the
\* time read before the cooldown decision, also when the call completes later.
C30_CommitDecisionTime ==
    /\ [][AlertState' # AlertState
            => (pc = "post" /\ pc' = "alert_return" /\ sa_result'
                /\ response' # NoResponse)]_vars
    /\ []((Dispatched /\ sa_result) => ClockOf(detection_type) = current_time)

\* C30 witness: an alert of EnhancedDetectionService decided at current_time
\* was accepted at a later time; the clock of its class holds current_time.
C30_Witness ==
    /\ program = "enhanced" /\ Dispatched /\ sa_result
    /\ clock > current_time
    /\ LastAlertOf(detection_type) = current_time

\* C31: a cycle of run_detection is sequential: a frame is captured only at
\* the top of the loop; the frame slot is written only by the publish step at
\* the end of a cycle, with the frame of that cycle, at most once per capture
\* and with no send_alert call open; a cycle whose inference or processing
\* fails goes back to the capture and leaves the slot as it was.
C31_SequentialCycle ==
    /\ [][(program = "enhanced" /\ frame_count' # frame_count)
            => (pc = "read" /\ pc' = "infer")]_vars
    /\ [][(program = "enhanced" /\ current_frame' # current_frame)
            => /\ pc = "publishing" /\ pc' = "read"
               /\ current_frame < frame_count /\ current_frame' = frame_count
               /\ response = NoResponse /\ pred = <<>>]_vars
    /\ []((program = "enhanced" /\ pc \in {"publish", "publishing"})
            => (response = NoResponse /\ current_frame < frame_count))

\* C31 witness: the first cycle published frame 1, the second cycle failed
\* (inference or processing raised): the loop is back at the capture and the
\* slot still holds frame 1.
C31_Witness ==
    /\ program = "enhanced" /\ pc = "read"
    /\ frame_count = 2 /\ current_frame = 1

C37_OnlyGunOrKnifeNames ==
    (program = "enhanced" /\ pc \in {"send_alert", "post", "alert_return"})
        => (Contains("gun", pred[i].cls) \/ Contains("knife", pred[i].cls))

\* C37 (amended): in EnhancedDetectionService send_alert is only called with
\* detection_type gun or knife, for a class name that contains one of "gun",
\* "knife", "guns", "knives"; a name containing "gun" is gated by the gun
\* clock, every other weapon name by the knife clock.
C37_AlertTypeByClassName ==
    (program = "enhanced" /\ pc \in {"send_alert", "post", "alert_return"})
        => LET name == pred[i].cls
               gated == IF Contains("gun", name) THEN 1 ELSE 2
           IN /\ detection_type \in AlertTypes
              /\ \E w \in {"gun", "knife", "guns", "knives"} : Contains(w, name)
              /\ detection_type = (IF Contains("gun", name) THEN "gun" ELSE "knife")
              /\ pc = "post" => current_time - sa_pre[gated] >= cooldown_seconds
              /\ Suppressed => current_time - sa_pre[gated] < cooldown_seconds

\* C37 witness: a detection of class "knives" is being POSTed as a knife
\* alert, at a time when the gun clock alone would have suppressed it.
C37_Witness ==
    /\ program = "enhanced" /\ pc = "post" /\ pred[i].cls = "knives"
    /\ detection_type = "knife"
    /\ current_time - last_gun_alert < cooldown_seconds

\* C38: in GunDetectionService an alert the backend accepts is decided at
\* least cooldown_seconds after every alert, of any type, accepted before.
C38_GdsAlertsSpaced ==
    [][(program = "gun" /\ pc = "post" /\ pc' = "alert_return" /\ Is2xx(response'))
         => \A t \in AlertTypes :
              last_accepted[t] # Never
                => current_time - last_accepted[t] >= gds_cooldown_seconds]_vars

\* ------------------------------------------- working_video_stream: capture
\* main -> VideoStreamer.start_capture: the camera is opened and the capture
\* thread started, or start_capture returns False and no thread runs.
WsStartCapture ==
    /\ program = "stream" /\ ws_pc = "start"
    /\ \E avail \in SUBSET CameraIndexes :
         LET r == initialize_camera(avail) IN
         /\ cap' = r.cap
         /\ camera_index' = r.camera_index
         /\ running' = r.ok
         /\ tried' = r.tried
         /\ ws_pc' = IF r.ok THEN "loop" ELSE "no_capture"
    /\ UNCHANGED <<program, clock, enhFields, enhStream, gdsFields, loopVars,
                   saVars, histVars, obsVars, snapVars, ws_current_frame,
                   camera_active, ws_frame_count, camera_lock, genVars, ws_read_failed,
                   startVars, results_shape, main_pc>>

\* _capture_loop: `while self.running:` and the check of the capture handle.
WsLoopCheck ==
    /\ program = "stream" /\ ws_pc = "loop"
    /\ ws_pc' = IF ~running THEN "exited"
                ELSE IF cap # "open" THEN "reconnect" ELSE "capture"
    /\ tried' = <<>>
    /\ UNCHANGED <<program, clock, enhFields, enhStream, gdsFields, loopVars,
                   saVars, histVars, obsVars, snapVars, ws_read_failed,
                   ws_current_frame, camera_active, ws_frame_count, camera_lock,
                   running, cap, camera_index, genVars,
                   startVars, results_shape, main_pc>>

\* _capture_loop: the connection is lost, initialize_camera is tried again.
WsReconnect ==
    /\ program = "stream" /\ ws_pc = "reconnect"
    /\ \E avail \in SUBSET CameraIndexes :
         LET r == initialize_camera(avail) IN
         /\ cap' = r.cap
         /\ camera_index' = r.camera_index
         /\ tried' = r.tried
         /\ ws_pc' = IF r.ok THEN "capture" ELSE "retry_sleep"
    /\ ws_read_failed' = FALSE
    /\ UNCHANGED <<program, clock, enhFields, enhStream, gdsFields, loopVars,
                   saVars, histVars, obsVars, snapVars, ws_current_frame,
                   camera_active, ws_frame_count, camera_lock, running, genVars,
                   startVars, results_shape, main_pc>>

\* _capture_loop: time.sleep(2) after a failed reconnect, time.sleep(0.1) after
\* a failed read, time.sleep(0.033) after a published frame, time.sleep(1) in
\* the except clause.
WsSleep ==
    /\ program = "stream" /\ ws_pc \in {"retry_sleep", "read_sleep", "frame_sleep", "error_sleep"}
    /\ ws_pc' = "loop"
    /\ tried' = <<>>
    /\ UNCHANGED <<program, clock, enhFields, enhStream, gdsFields, loopVars,
                   saVars, histVars, obsVars, snapVars, ws_read_failed,
                   ws_current_frame, camera_active, ws_frame_count, camera_lock,
                   running, cap, camera_index, genVars,
                   startVars, results_shape, main_pc>>

\* _capture_loop: self.cap.read() delivers a frame; overlays, frame counter.
WsReadOk ==
    /\ program = "stream" /\ ws_pc = "capture" /\ cap = "open"
    /\ ws_frame_count < MaxFrames
    /\ ws_frame_count' = ws_frame_count + 1
    /\ ws_read_failed' = FALSE
    /\ tried' = <<>>
    /\ ws_pc' = "publish"
    /\ UNCHANGED <<program, clock, enhFields, enhStream, gdsFields, loopVars,
                   saVars, histVars, obsVars, snapVars, ws_current_frame,
                   camera_active, camera_lock, running, cap, camera_index,
                   genVars,
                   startVars, results_shape, main_pc>>

\* _capture_loop: self.cap.read() returns no frame.
WsReadFailBusy ==
    /\ program = "stream" /\ ws_pc = "capture" /\ cap # "none"
    /\ ws_read_failed' = TRUE
    /\ tried' = <<>>
    /\ ws_pc' = "loop"
    /\ UNCHANGED <<program, clock, enhFields, enhStream, gdsFields, loopVars,
                   saVars, histVars, obsVars, snapVars, ws_current_frame,
                   camera_active, ws_frame_count, camera_lock, running, cap,
                   camera_index, genVars,
                   startVars, results_shape, main_pc>>
WsReadFail ==
    /\ program = "stream" /\ ws_pc = "capture" /\ cap # "none"
    /\ ws_read_failed' = TRUE
    /\ tried' = <<>>
    /\ ws_pc' = "read_sleep"
    /\ UNCHANGED <<program, clock, enhFields, enhStream, gdsFields, loopVars,
                   saVars, histVars, obsVars, snapVars, ws_current_frame,
                   camera_active, ws_frame_count, camera_lock, running, cap,
                   camera_index, genVars,
                   startVars, results_shape, main_pc>>

\* _capture_loop: self.cap.read() on a handle that stop_capture has set to
\* None raises; the except clause logs and sleeps.
WsReadRaises ==
    /\ program = "stream" /\ ws_pc = "capture" /\ cap = "none"
    /\ ws_pc' = "error_sleep"
    /\ UNCHANGED <<program, clock, enhFields, enhStream, gdsFields, loopVars,
                   saVars, histVars, obsVars, snapVars, strObs, ws_current_frame,
                   camera_active, ws_frame_count, camera_lock, running, cap,
                   camera_index, genVars, startVars, results_shape, main_pc>>

\* main, finally clause -> VideoStreamer.stop_capture, after app.run has
\* returned (taken when no request is being served): running is cleared, the
\* handle is released and set to None; the capture thread is not joined.
WsStopCapture ==
    /\ program = "stream" /\ ws_pc # "start" /\ main_pc = "serving"
    /\ \A c \in Clients : gen_pc[c] = "idle"
    /\ snap_pc = "idle"
    /\ running' = FALSE
    /\ cap' = "none"
    /\ main_pc' = "stopped"
    /\ UNCHANGED <<program, clock, enhFields, enhStream, gdsFields, loopVars,
                   saVars, histVars, obsVars, snapVars, strObs, ws_current_frame,
                   camera_active, ws_frame_count, camera_lock, camera_index,
                   ws_pc, genVars, startVars, results_shape>>

WsPublishAcquireNoWait ==
    /\ program = "stream" /\ ws_pc = "publish"
    /\ camera_lock' = 0 - 1
    /\ ws_pc' = "publishing"
    /\ UNCHANGED <<program, clock, enhFields, enhStream, gdsFields, loopVars,
                   saVars, histVars, obsVars, snapVars, strObs, ws_current_frame,
                   camera_active, ws_frame_count, running, cap, camera_index,
                   genVars,
                   startVars, results_shape, main_pc>>

\* _capture_loop: `with camera_lock:` is entered.
WsPublishAcquire ==
    /\ program = "stream" /\ ws_pc = "publish" /\ camera_lock = 0
    /\ camera_lock' = 0 - 1
    /\ ws_pc' = "publishing"
    /\ UNCHANGED <<program, clock, enhFields, enhStream, gdsFields, loopVars,
                   saVars, histVars, obsVars, snapVars, strObs, ws_current_frame,
                   camera_active,
                   ws_frame_count, running, cap, camera_index, genVars,
                   startVars, results_shape, main_pc>>

\* _capture_loop: current_frame = frame.copy(); camera_active = True; the lock
\* is released.
WsPublishWrite ==
    /\ program = "stream" /\ ws_pc = "publishing"
    /\ ws_current_frame' = ws_frame_count
    /\ camera_active' = TRUE
    /\ camera_lock' = 0
    /\ ws_pc' = "frame_sleep"
    /\ UNCHANGED <<program, clock, enhFields, enhStream, gdsFields, loopVars,
                   saVars, histVars, obsVars, snapVars, strObs, ws_frame_count, running, cap, camera_index,
                   genVars,
                   startVars, results_shape, main_pc>>

\* The device goes away: self.cap.isOpened() turns False.
WsCameraLost ==
    /\ program = "stream" /\ cap = "open" /\ ws_pc # "start"
    /\ cap' = "closed"
    /\ UNCHANGED <<program, clock, enhFields, enhStream, gdsFields, loopVars,
                   saVars, histVars, obsVars, snapVars, strObs, ws_current_frame,
                   camera_active,
                   ws_frame_count, camera_lock, running, camera_index, ws_pc,
                   genVars,
                   startVars, results_shape, main_pc>>

\* ------------------------------------------------------ stream generators
\* The frame slot the generators of the running service read.
StoredFrameSlot == IF program = "enhanced" THEN current_frame ELSE ws_current_frame
\* A client requests /video_feed: the server starts to iterate a generator.
GenConnect(c) ==
    /\ program \in {"enhanced", "stream", "simple"} /\ gen_pc[c] = "idle"
    /\ main_pc = "serving"
    /\ gen_pc' = [gen_pc EXCEPT ![c] = "top"]
    /\ gen_saw' = [gen_saw EXCEPT ![c] = "nothing"]
    /\ UNCHANGED <<program, clock, enhFields, enhStream, gdsFields, loopVars,
                   saVars, histVars, obsVars, snapVars, strObs,
                   wsVars, gen_out,
                   startVars, results_shape, main_pc>>

\* generate_frames: time.sleep() at the end of an iteration.
GenSleep(c) ==
    /\ program \in {"enhanced", "stream"} /\ gen_pc[c] = "sleep"
    /\ gen_pc' = [gen_pc EXCEPT ![c] = "top"]
    /\ UNCHANGED <<program, clock, enhFields, enhStream, gdsFields, loopVars,
                   saVars, histVars, obsVars, snapVars, strObs,
                   wsVars, gen_saw, gen_out,
                   startVars, results_shape, main_pc>>

\* EnhancedDetectionService.generate_frames: `with self.frame_lock:`.
EnhGenAcquire(c) ==
    /\ program = "enhanced" /\ gen_pc[c] = "top" /\ frame_lock = 0
    /\ frame_lock' = c
    /\ gen_pc' = [gen_pc EXCEPT ![c] = "locked"]
    /\ gen_saw' = [gen_saw EXCEPT ![c] = "nothing"]
    /\ gen_out' = [gen_out EXCEPT ![c] = NoPayload]
    /\ UNCHANGED <<program, clock, enhFields, current_frame, gdsFields, loopVars,
                   saVars, histVars, obsVars, snapVars, strObs,
                   wsVars,
                   startVars, results_shape, main_pc>>

\* EnhancedDetectionService.generate_frames, inside the lock: a stored frame is
\* encoded and yielded (the generator is suspended inside the `with` block);
\* with no stored frame, or when the encoding fails, the block is left.
EnhGenBody(c) ==
    /\ program = "enhanced" /\ gen_pc[c] = "locked"
    /\ IF current_frame # 0
       THEN \E ret \in BOOLEAN :
              IF ret
              THEN /\ gen_saw' = [gen_saw EXCEPT ![c] = "frame"]
                   /\ gen_out' = [gen_out EXCEPT ![c] = current_frame]
                   /\ gen_pc' = [gen_pc EXCEPT ![c] = "yield"]
                   /\ UNCHANGED frame_lock
              ELSE /\ gen_saw' = [gen_saw EXCEPT ![c] = "frame_encode_failed"]
                   /\ gen_pc' = [gen_pc EXCEPT ![c] = "sleep"]
                   /\ frame_lock' = 0
                   /\ UNCHANGED gen_out
       ELSE /\ gen_saw' = [gen_saw EXCEPT ![c] = "empty"]
            /\ gen_pc' = [gen_pc EXCEPT ![c] = "sleep"]
            /\ frame_lock' = 0
            /\ UNCHANGED gen_out
    /\ UNCHANGED <<program, clock, enhFields, current_frame, gdsFields, loopVars,
                   saVars, histVars, obsVars, snapVars, strObs,
                   wsVars,
                   startVars, results_shape, main_pc>>

\* EnhancedDetectionService.generate_frames: the server asks for the next
\* payload; the generator resumes after the yield and leaves the `with` block.
EnhGenResume(c) ==
    /\ program = "enhanced" /\ gen_pc[c] = "yield"
    /\ frame_lock' = 0
    /\ gen_pc' = [gen_pc EXCEPT ![c] = "sleep"]
    /\ UNCHANGED <<program, clock, enhFields, current_frame, gdsFields, loopVars,
                   saVars, histVars, obsVars, snapVars, wsVars, gen_saw, gen_out,
                   ws_read_failed, tried,
                   startVars, results_shape, main_pc>>

\* working_video_stream.generate_frames: `with camera_lock:`.
WsGenAcquire(c) ==
    /\ program = "stream" /\ gen_pc[c] = "top" /\ camera_lock = 0
    /\ camera_lock' = c
    /\ gen_pc' = [gen_pc EXCEPT ![c] = "locked"]
    /\ gen_saw' = [gen_saw EXCEPT ![c] = "nothing"]
    /\ gen_out' = [gen_out EXCEPT ![c] = NoPayload]
    /\ UNCHANGED <<program, clock, enhFields, enhStream, gdsFields, loopVars,
                   saVars, histVars, obsVars, snapVars, strObs, ws_current_frame,
                   camera_active,
                   ws_frame_count, running, cap, camera_index, ws_pc,
                   startVars, results_shape, main_pc>>

WsGenBodyOldest(c) ==
    /\ program = "stream" /\ gen_pc[c] = "locked"
    /\ \E ret \in BOOLEAN :
         LET saw == IF ws_current_frame # 0 THEN "frame" ELSE "empty"
             payload == IF ws_current_frame = 0 THEN Placeholder ELSE 1
         IN IF ret
            THEN /\ gen_saw' = [gen_saw EXCEPT ![c] = saw]
                 /\ gen_out' = [gen_out EXCEPT ![c] = payload]
                 /\ gen_pc' = [gen_pc EXCEPT ![c] = "yield"]
                 /\ UNCHANGED camera_lock
            ELSE /\ gen_saw' = [gen_saw EXCEPT ![c] =
                                  IF saw = "frame" THEN "frame_encode_failed"
                                  ELSE "empty_encode_failed"]
                 /\ gen_pc' = [gen_pc EXCEPT ![c] = "sleep"]
                 /\ camera_lock' = 0
                 /\ UNCHANGED gen_out
    /\ UNCHANGED <<program, clock, enhFields, enhStream, gdsFields, loopVars,
                   saVars, histVars, obsVars, snapVars, strObs, ws_current_frame,
                   camera_active, ws_frame_count, running, cap, camera_index,
                   ws_pc,
                   startVars, results_shape, main_pc>>

\* working_video_stream.generate_frames, inside the lock: the stored frame, or
\* the placeholder frame when there is none, is encoded and yielded (the
\* generator is suspended inside the `with` block); when the encoding fails the
\* block is left.
WsGenBody(c) ==
    /\ program = "stream" /\ gen_pc[c] = "locked"
    /\ \E ret \in BOOLEAN :
         LET saw == IF ws_current_frame # 0 THEN "frame" ELSE "empty"
             payload == IF ws_current_frame # 0 THEN ws_current_frame ELSE Placeholder
         IN IF ret
            THEN /\ gen_saw' = [gen_saw EXCEPT ![c] = saw]
                 /\ gen_out' = [gen_out EXCEPT ![c] = payload]
                 /\ gen_pc' = [gen_pc EXCEPT ![c] = "yield"]
                 /\ UNCHANGED camera_lock
            ELSE /\ gen_saw' = [gen_saw EXCEPT ![c] =
                                  IF saw = "frame" THEN "frame_encode_failed"
                                  ELSE "empty_encode_failed"]
                 /\ gen_pc' = [gen_pc EXCEPT ![c] = "sleep"]
                 /\ camera_lock' = 0
                 /\ UNCHANGED gen_out
    /\ UNCHANGED <<program, clock, enhFields, enhStream, gdsFields, loopVars,
                   saVars, histVars, obsVars, snapVars, strObs, ws_current_frame,
                   camera_active,
                   ws_frame_count, running, cap, camera_index, ws_pc,
                   startVars, results_shape, main_pc>>

\* working_video_stream.generate_frames: the server asks for the next payload;
\* the generator resumes after the yield and leaves the `with` block.
WsGenResume(c) ==
    /\ program = "stream" /\ gen_pc[c] = "yield"
    /\ camera_lock' = 0
    /\ gen_pc' = [gen_pc EXCEPT ![c] = "sleep"]
    /\ UNCHANGED <<program, clock, enhFields, enhStream, gdsFields, loopVars,
                   saVars, histVars, obsVars, snapVars, ws_current_frame,
                   camera_active, ws_frame_count, running, cap, camera_index,
                   ws_pc, gen_saw, gen_out, ws_read_failed, tried,
                   startVars, results_shape, main_pc>>

\* generate_frames: the client's connection is gone while the generator is
\* suspended at its yield; the server closes the generator, GeneratorExit is
\* raised at the yield and the `with` block releases the lock on the way out.
GenCloseKeepingLock(c) ==
    /\ program \in {"enhanced", "stream"} /\ gen_pc[c] = "yield"
    /\ gen_pc' = [gen_pc EXCEPT ![c] = "idle"]
    /\ gen_saw' = [gen_saw EXCEPT ![c] = "closed"]
    /\ gen_out' = [gen_out EXCEPT ![c] = NoPayload]
    /\ UNCHANGED <<program, clock, enhFields, enhStream, gdsFields, loopVars,
                   saVars, histVars, obsVars, snapVars, strObs, wsVars,
                   startVars, results_shape, main_pc>>
GenClose(c) ==
    /\ program \in {"enhanced", "stream"} /\ gen_pc[c] = "yield"
    /\ gen_pc' = [gen_pc EXCEPT ![c] = "idle"]
    /\ gen_saw' = [gen_saw EXCEPT ![c] = "closed"]
    /\ gen_out' = [gen_out EXCEPT ![c] = NoPayload]
    /\ frame_lock' = IF program = "enhanced" THEN 0 ELSE frame_lock
    /\ camera_lock' = IF program = "stream" THEN 0 ELSE camera_lock
    /\ UNCHANGED <<program, clock, enhFields, current_frame, gdsFields, loopVars,
                   saVars, histVars, obsVars, snapVars, strObs, ws_current_frame,
                   camera_active, ws_frame_count, running, cap, camera_index, ws_pc,
                   startVars, results_shape, main_pc>>

\* generate_frames, inside the lock: a statement of the body raises (cv2.imencode
\* on a frame it cannot encode; nothing in generate_frames catches it); the
\* `with` block releases the lock and the generator, and with it the client's
\* stream, is over.
GenRaise(c) ==
    /\ program \in {"enhanced", "stream"} /\ gen_pc[c] = "locked"
    /\ StoredFrameSlot # 0
    /\ gen_pc' = [gen_pc EXCEPT ![c] = "idle"]
    /\ frame_lock' = IF program = "enhanced" THEN 0 ELSE frame_lock
    /\ camera_lock' = IF program = "stream" THEN 0 ELSE camera_lock
    /\ UNCHANGED <<program, clock, enhFields, current_frame, gdsFields, loopVars,
                   saVars, histVars, obsVars, snapVars, strObs, ws_current_frame,
                   camera_active, ws_frame_count, running, cap, camera_index, ws_pc,
                   gen_saw, gen_out,
                   startVars, results_shape, main_pc>>

\* -------------------------------------------------- simple_video_stream
\* generate_frames, top of the loop: with no capture handle initialize_camera
\* is called: the device opens, or VideoCapture returns a handle that is not
\* open (the global keeps it), or it raises (the global stays None); after a
\* failure the generator sleeps 1 s and starts over.
SvsTop(c) ==
    /\ program = "simple" /\ gen_pc[c] = "top"
    /\ IF cap = "none"
       THEN \E got \in {"open", "closed", "none"} :
              /\ cap' = got
              /\ gen_pc' = [gen_pc EXCEPT ![c] =
                              IF got = "open" THEN "read" ELSE "open_sleep"]
       ELSE /\ gen_pc' = [gen_pc EXCEPT ![c] = "read"]
            /\ UNCHANGED cap
    /\ UNCHANGED <<program, clock, enhFields, enhStream, gdsFields, loopVars,
                   saVars, histVars, obsVars, snapVars, strObs, ws_current_frame,
                   camera_active, ws_frame_count, camera_lock, running,
                   camera_index, ws_pc, gen_saw, gen_out, startVars,
                   results_shape, main_pc>>

\* generate_frames: cap.read(); a failed read is followed by a sleep of 0.1 s,
\* a frame is stamped, encoded and yielded (or skipped when the encoding
\* reports a failure).
SvsRead(c) ==
    /\ program = "simple" /\ gen_pc[c] = "read"
    /\ \E ret \in (IF cap = "open" THEN BOOLEAN ELSE {FALSE}), enc \in BOOLEAN :
         gen_pc' = [gen_pc EXCEPT ![c] =
                      IF ~ret THEN "read_sleep"
                      ELSE IF enc THEN "svs_yield" ELSE "sleep"]
    /\ UNCHANGED <<program, clock, enhFields, enhStream, gdsFields, loopVars,
                   saVars, histVars, obsVars, snapVars, strObs, wsVars, gen_saw, gen_out,
                   startVars, results_shape, main_pc>>

\* generate_frames: time.sleep(1) after a failed open, time.sleep(0.1) after a
\* failed read, time.sleep(0.033) at the end of an iteration.
SvsSleep(c) ==
    /\ program = "simple" /\ gen_pc[c] \in {"open_sleep", "read_sleep", "sleep"}
    /\ gen_pc' = [gen_pc EXCEPT ![c] = "top"]
    /\ UNCHANGED <<program, clock, enhFields, enhStream, gdsFields, loopVars,
                   saVars, histVars, obsVars, snapVars, strObs, wsVars, gen_saw,
                   gen_out, startVars, results_shape, main_pc>>

\* generate_frames: the server asks for the next payload, or closes the
\* generator because the client is gone.
SvsResume(c) ==
    /\ program = "simple" /\ gen_pc[c] = "svs_yield"
    /\ \E closed \in BOOLEAN :
         gen_pc' = [gen_pc EXCEPT ![c] = IF closed THEN "idle" ELSE "sleep"]
    /\ UNCHANGED <<program, clock, enhFields, enhStream, gdsFields, loopVars,
                   saVars, histVars, obsVars, snapVars, strObs, wsVars,
                   gen_saw, gen_out, startVars, results_shape, main_pc>>

\* ------------------------------------------------------- snapshot endpoint
\* The thread that serves a /snapshot request, as a holder of camera_lock.
SnapshotThread == MaxClients + 1

\* working_video_stream.snapshot: `with camera_lock:` is entered.
SnapAcquire ==
    /\ program = "stream" /\ snap_pc = "idle" /\ camera_lock = 0
    /\ main_pc = "serving"
    /\ camera_lock' = SnapshotThread
    /\ snap_pc' = "locked"
    /\ UNCHANGED <<program, clock, enhFields, enhStream, gdsFields, loopVars,
                   saVars, histVars, obsVars, strObs, ws_current_frame,
                   camera_active, ws_frame_count, running, cap, camera_index,
                   ws_pc, genVars,
                   startVars, results_shape, main_pc>>

\* working_video_stream.snapshot, inside the lock: the stored frame is encoded
\* and returned; with no stored frame, or when the encoding fails, the block
\* is left and the placeholder frame is returned.  Either way the lock is
\* released and the request is over.
SnapBody ==
    /\ program = "stream" /\ snap_pc = "locked"
    /\ camera_lock' = 0
    /\ snap_pc' = "idle"
    /\ UNCHANGED <<program, clock, enhFields, enhStream, gdsFields, loopVars,
                   saVars, histVars, obsVars, strObs, ws_current_frame,
                   camera_active, ws_frame_count, running, cap, camera_index,
                   ws_pc, genVars,
                   startVars, results_shape, main_pc>>

\* ------------------------------------------------ streaming specification
\* Either streaming service with up to MaxClients clients; the detector of
\* EnhancedDetectionService finds nothing in the frames.
InitStream == InitCommon /\ program \in {"enhanced", "stream", "simple"}

NextStream ==
    \/ EnhReadOk \/ EnhReadFail \/ EnhInfer(EmptyScenes) \/ EnhInferFail
    \/ EnhProcessDone \/ EnhPublishAcquire \/ EnhPublishWrite
    \/ WsStartCapture \/ WsLoopCheck \/ WsReconnect \/ WsSleep \/ WsReadOk
    \/ WsReadFail \/ WsPublishAcquire \/ WsPublishWrite \/ WsCameraLost
    \/ WsReadRaises \/ WsStopCapture
    \/ SnapAcquire \/ SnapBody
    \/ \E c \in Clients :
         \/ GenConnect(c) \/ GenSleep(c)
         \/ EnhGenAcquire(c) \/ EnhGenBody(c) \/ EnhGenResume(c)
         \/ WsGenAcquire(c) \/ WsGenBody(c) \/ WsGenResume(c)
         \/ GenClose(c) \/ GenRaise(c)
         \/ SvsTop(c) \/ SvsRead(c) \/ SvsSleep(c) \/ SvsResume(c)

SpecStream == InitStream /\ [][NextStream]_vars

\* ----------------------------------------------------- claims: streaming
\* The lock guarding the stored frame of the running service.
FrameLock == IF program = "enhanced" THEN frame_lock ELSE camera_lock
ProducerWaits ==
    \/ program = "enhanced" /\ pc = "publish"
    \/ program = "stream" /\ ws_pc = "publish"

\* C9: a stream generator never holds the frame lock while it is suspended at
\* its yield, so the producer's publish never waits for a generator that is
\* suspended there.
C9_NoLockAtYield ==
    /\ \A c \in Clients : gen_pc[c] = "yield" => FrameLock # c
    /\ \A c \in Clients : ~(ProducerWaits /\ FrameLock = c /\ gen_pc[c] = "yield")

\* C10: in both streaming services an iteration of generate_frames that finds
\* no stored frame (and whose JPEG encoding does not fail) yields the
\* placeholder frame.
C10_PlaceholderWhenEmpty ==
    \A c \in Clients :
        (gen_pc[c] \in {"yield", "sleep"} /\ gen_saw[c] = "empty")
            => gen_out[c] = Placeholder

\* The stored latest frame of the running service.
StoredFrame == IF program = "enhanced" THEN current_frame ELSE ws_current_frame
Publishing ==
    \/ program = "enhanced" /\ pc = "publishing"
    \/ program = "stream" /\ ws_pc = "publishing"
\* The threads inside a `with` block of the frame lock.
Inside ==
    {c \in Clients : gen_pc[c] \in {"locked", "yield"}}
      \cup (IF Publishing THEN {0 - 1} ELSE {})
      \cup (IF snap_pc = "locked" THEN {SnapshotThread} ELSE {})

\* C11: at most one thread is inside the critical section of the frame lock
\* (never the producer together with a generator or the snapshot handler, never
\* two readers), and the stored frame is written only by the producer inside
\* it and read by a generator or the snapshot handler only inside it.
C11_SlotUnderLock ==
    /\ [](Cardinality(Inside) <= 1 /\ (Inside # {} => FrameLock \in Inside))
    /\ [][StoredFrame' # StoredFrame => (Publishing /\ FrameLock = 0 - 1)]_vars
    /\ [][\A c \in Clients :
            (gen_saw'[c] # gen_saw[c] /\ gen_saw'[c] \notin {"nothing", "closed"})
              => (gen_pc[c] = "locked" /\ FrameLock = c)]_vars
    /\ [][(snap_pc = "locked" /\ snap_pc' # "locked")
            => FrameLock = SnapshotThread]_vars

\* C11 witness: the producer of working_video_stream waits for the lock with a
\* new frame while a generator reads the stored frame inside the lock and
\* another generator waits as well.
C11_Witness ==
    /\ program = "stream" /\ ws_pc = "publish" /\ ws_current_frame # 0
    /\ gen_pc[1] = "locked" /\ gen_pc[2] = "top" /\ FrameLock = 1

\* C12: a generator yields the stored frame as it is at its read, which is
\* the most recently published one (there is one slot, no queue of earlier
\* frames), and the stored frame is never replaced by a frame captured
\* earlier, so the frames one generator yields never go back.
C12_LatestFrameOnly ==
    /\ [](\A c \in Clients :
            (gen_pc[c] = "yield" /\ gen_saw[c] = "frame")
               => (gen_out[c] = StoredFrame /\ gen_out[c] > 0))
    /\ [][StoredFrame' >= StoredFrame]_vars

\* C12 witness: after the second publish of working_video_stream a generator
\* reads and yields the second frame, while another generator, which yielded
\* the first frame, sleeps.
C12_Witness ==
    /\ program = "stream" /\ gen_pc[1] = "yield" /\ gen_saw[1] = "frame"
    /\ gen_out[1] = 2 /\ ws_current_frame = 2
    /\ gen_pc[2] = "sleep" /\ gen_out[2] = 1

\* C16: when initialize_camera fails on every index, at startup or on a
\* reconnect, the capture loop is not started or is left.
C16_DeviceUnavailableFatal ==
    [][(ws_pc \in {"start", "reconnect"} /\ ws_pc' # ws_pc /\ cap' # "open")
         => ws_pc' \in {"no_capture", "exited"}]_vars

\* C17: after a failed read the capture loop attempts a reconnect (a reopen of
\* the device) before it reads again.
C17_ReconnectAfterReadFailure ==
    ~(program = "stream" /\ ws_pc = "capture" /\ ws_read_failed)

\* `seq` without the entries equal to x; a is a prefix of b.
Without(seq, x) == SelectSeq(seq, LAMBDA y : y # x)
IsPrefix(a, b) == Len(a) <= Len(b) /\ SubSeq(b, 1, Len(a)) = a

\* C18: an initialize_camera call that opens a device tries the preferred
\* index first, then the fallback indexes in list order; the index that opened
\* is the preferred index afterwards (so the next reconnect tries it first),
\* and a call that opens nothing leaves the preferred index.
C18_FallbackOrderRemembered ==
    [][(ws_pc \in {"start", "reconnect"} /\ ws_pc' # ws_pc /\ tried' # <<>>)
         => /\ tried'[1] = camera_index
            /\ IsPrefix(Tail(tried'), Without(fallback_indexes, camera_index))
            /\ cap' = "open" => camera_index' = tried'[Len(tried')]
            /\ cap' # "open" => camera_index' = camera_index]_vars

\* C18 witness: a reconnect tried index 2 first (index 0 failed and fallback
\* index 2 opened in an earlier call) and then the indexes 0 and 1.
C18_Witness ==
    /\ program = "stream" /\ ws_pc = "retry_sleep"
    /\ tried = <<2, 0, 1>> /\ camera_index = 2

\* The capture loop cannot obtain frames: the reconnect of working_video_stream
\* has just failed on every index, the loop of EnhancedDetectionService has
\* ended after a failed read.
CameraDown ==
    \/ program = "stream" /\ ws_pc = "retry_sleep"
    \/ program = "enhanced" /\ pc = "stopped"

\* C24: while the camera is down an iteration of generate_frames (whose JPEG
\* encoding does not fail) yields the placeholder frame, also after real frames
\* have been published.
C24_PlaceholderWhenCameraDown ==
    [][\A c \in Clients :
         (CameraDown /\ gen_pc[c] = "locked" /\ gen_saw'[c] \in {"frame", "empty"})
             => (gen_pc'[c] = "yield" /\ gen_out'[c] = Placeholder)]_vars

\* C27: the frame counter and the stored frame change together: whenever the
\* lock of the frame slot is free (a reader can take it and read) the counter
\* names the stored frame.
C27_CounterWithFrame ==
    (program = "stream" /\ camera_lock = 0) => ws_frame_count = ws_current_frame

\* C33: an iteration of generate_frames whose JPEG encoding fails (the body is
\* left without a yield) yields no payload, releases the frame lock, leaves the
\* stored frame, and the generator goes on to the sleep that precedes its next
\* iteration.
C33_EncodeFailureSkipped ==
    [][\A c \in Clients :
         (gen_pc[c] = "locked" /\ gen_pc'[c] # "locked" /\ gen_pc'[c] # "yield"
            /\ StoredFrame # 0)
             => /\ gen_pc'[c] = "sleep"
                /\ gen_out'[c] = NoPayload
                /\ FrameLock' # c
                /\ StoredFrame' = StoredFrame]_vars

\* C36: the frame lock is never held by a generator that is outside its `with`
\* block: a generator that was closed at its yield, or whose body raised, has
\* released the lock, and a holder is always a generator that is inside the
\* block (whose next step releases the lock).
C36_LockReleasedOnTermination ==
    \A c \in Clients : FrameLock = c => gen_pc[c] \in {"locked", "yield"}

\* C36 witness: the generator of client 1 was closed while suspended at its
\* yield, and another thread has taken the lock since.
C36_Witness ==
    /\ gen_pc[1] = "idle" /\ gen_saw[1] = "closed"
    /\ FrameLock # 0 /\ FrameLock # 1

\* The sleeps of _capture_loop.
WsSleeps == {"retry_sleep", "read_sleep", "frame_sleep", "error_sleep"}

\* C35: once stop_capture has returned the capture device is not open again,
\* no frame is published any more, and the loop does not use the handle that
\* was set to None.
C35_StopIsFinal ==
    /\ []((program = "stream" /\ main_pc = "stopped")
            => (cap # "open" /\ ws_pc # "error_sleep"))
    /\ [][(program = "stream" /\ main_pc = "stopped")
            => ws_current_frame' = ws_current_frame]_vars

\* C39: camera_active, which /api/status and /api/health report, is true only
\* while the capture loop is delivering frames: not before the first publish,
\* not after stop_capture, not while the device is lost.
C39_ActiveOnlyWhileDelivering ==
    (program = "stream" /\ camera_active)
        => (ws_current_frame # 0 /\ main_pc = "serving" /\ cap = "open")

\* C32: the capture loops do not busy-loop on failures: a failed attempt to
\* reopen the camera and a failed (or raising) read are each followed by a
\* sleep, a sleep is only left for the top of the loop, and an attempt is only
\* made from the top of the loop (working_video_stream._capture_loop and
\* simple_video_stream.generate_frames).
C32_BackoffBetweenFailures ==
    /\ [][(program = "stream" /\ ws_pc = "reconnect" /\ ws_pc' # ws_pc
             /\ cap' # "open") => ws_pc' = "retry_sleep"]_vars
    /\ [][(program = "stream" /\ ws_pc = "capture"
             /\ ws_pc' \notin {"capture", "publish"})
            => ws_pc' \in {"read_sleep", "error_sleep"}]_vars
    /\ [][(program = "stream" /\ ws_pc \in WsSleeps /\ ws_pc' # ws_pc)
            => ws_pc' = "loop"]_vars
    /\ [][(program = "stream" /\ ws_pc' \in {"reconnect", "capture"}
             /\ ws_pc' # ws_pc) => ws_pc \in {"loop", "reconnect"}]_vars
    /\ [][\A c \in Clients :
            (program = "simple" /\ gen_pc'[c] # gen_pc[c])
              => /\ (gen_pc[c] = "top" /\ cap = "none" /\ cap' # "open")
                      => gen_pc'[c] = "open_sleep"
                 /\ gen_pc[c] = "read"
                      => gen_pc'[c] \in {"svs_yield", "sleep", "read_sleep"}
                 /\ gen_pc[c] \in {"open_sleep", "read_sleep"}
                      => gen_pc'[c] = "top"
                 /\ gen_pc'[c] = "read" => gen_pc[c] = "top"]_vars

\* C32 witness: in working_video_stream a read has failed before and, after
\* the sleep, a read has failed again: the loop is in the sleep that follows.
C32_Witness ==
    /\ program = "stream" /\ ws_pc = "read_sleep" /\ ws_read_failed
    /\ ws_frame_count > 0 /\ cap = "open"

=============================================================================
